---- MODULE Spec2Model ----
(***************************************************************************)
(* squash-tui: the interactive application loop of src/main.rs.            *)
(*                                                                         *)
(* The model follows main() statement by statement: ratatui::init(),       *)
(* App::default(), App::init() (whose Result main() binds to _init_result  *)
(* and never inspects), App::run() (draw, then handle_events, while !exit),*)
(* ratatui::restore() and the return of app_result.                        *)
(*                                                                         *)
(* usize values are modelled as integers.  The only subtractions of the    *)
(* code (len - 1 and cur -= 1 in select_previous) are written as plain     *)
(* integer subtractions, so an underflow would show as a negative cursor.  *)
(***************************************************************************)
EXTENDS Integers, Sequences, FiniteSets, TLC

(* Bounds of the model *)
MaxBranches == 3
MaxEvents == 4
MaxDiscarded == 1

VARIABLES
    pc,           \* position of main(): see PcValues
    app,          \* the App struct (main.rs:15-20)
    init_result,  \* _init_result of main() (main.rs:191)
    app_result,   \* app_result of main() (main.rs:192)
    raw_mode,     \* TRUE between ratatui::init() and ratatui::restore()
    restored,     \* number of calls of ratatui::restore() (main.rs:193)
    frames,       \* number of frames drawn by terminal.draw (main.rs:38)
    events,       \* the events event::read() has returned so far, in order
    screen,       \* what the last frame drew: the widgets of the three panes
    exit_code     \* the exit code of the process, None while it runs

vars == <<pc, app, init_result, app_result, raw_mode, restored, frames, events,
          screen, exit_code>>

PcValues == {"main", "init", "run", "draw", "read", "restore", "return",
             "done", "panicked"}

(* Option<usize>: None is the empty sequence, Some(i) is <<i>> *)
None == <<>>
Some(i) == <<i>>

(* The branch names a repository may hold, in the backend's enumeration order *)
BranchNames == <<"main", "dev", "feature-x", "hotfix", "release", "wip">>

(* The repositories of the model: the first n names, n = 0..MaxBranches *)
Repos == {SubSeq(BranchNames, 1, n) : n \in 0..MaxBranches}

(* crossterm events: key events (pressed or not), and one non-key event *)
KeyCodes == {"q", "j", "k", "Enter", "x"}
(* KeyEventKind: handle_events tests only kind == Press (main.rs:48); Release *)
(* stands for the kinds that are not Press (Release and Repeat)              *)
KeyEventKinds == {"Press", "Release"}
KeyEvents == [type : {"Key"}, kind : KeyEventKinds, code : KeyCodes]
OtherEvents == {[type |-> "Resize", kind |-> "-", code |-> "-"]}
Events == KeyEvents \cup OtherEvents

IsPress(e) == e.type = "Key" /\ e.kind = "Press"

(* The number of events of es that are not key presses *)
NumDiscarded(es) == Cardinality({i \in DOMAIN es : ~IsPress(es[i])})

(* #[derive(Default)] App *)
DefaultApp ==
    [exit |-> FALSE,
     branches |-> <<>>,
     selected_branch_index |-> None,
     selector_cursor_index |-> 0]

(* select_next with the wrap test written > instead of >= *)
select_next_gt(cur, len) ==
    LET c == cur + 1
    IN  IF c > len THEN 0 ELSE c

(* select_next that stays on the last row instead of wrapping *)
select_next_clamp(cur, len) ==
    LET c == cur + 1
    IN  IF c >= len THEN cur ELSE c

(* select_next that wraps one row early *)
select_next_early(cur, len) ==
    LET c == cur + 1
    IN  IF c >= len - 1 THEN 0 ELSE c

(* App::select_next, on the cursor and the length of branches *)
select_next(cur, len) ==
    LET c == cur + 1
    IN  IF c >= len THEN 0 ELSE c

(* select_previous without the early return on an empty list *)
select_previous_noguard(cur, len) ==
    IF cur = 0 THEN len - 1 ELSE cur - 1

(* select_previous that wraps to len instead of len - 1 *)
select_previous_len(cur, len) ==
    IF len = 0 THEN cur
    ELSE IF cur = 0 THEN len
    ELSE cur - 1

(* App::select_previous, on the cursor and the length of branches *)
select_previous(cur, len) ==
    IF len = 0 THEN cur
    ELSE IF cur = 0 THEN len - 1
    ELSE cur - 1

(* select_current that also moves the confirmed branch to the head of the list *)
select_current_front(a) ==
    LET b == a.branches
        c == a.selector_cursor_index + 1
    IN  IF c > Len(b)
        THEN [a EXCEPT !.selected_branch_index = Some(a.selector_cursor_index)]
        ELSE [a EXCEPT !.branches = <<b[c]>> \o SubSeq(b, 1, c - 1)
                                         \o SubSeq(b, c + 1, Len(b)),
                       !.selected_branch_index = Some(0)]

(* select_current that stores the row number counted from 1 *)
select_current_onebased(a) ==
    [a EXCEPT !.selected_branch_index = Some(a.selector_cursor_index + 1)]

(* App::select_current *)
select_current(a) ==
    [a EXCEPT !.selected_branch_index = Some(a.selector_cursor_index)]

(* App::exit *)
exit(a) == [a EXCEPT !.exit = TRUE]

(* handle_key_event whose Enter arm confirms the row and quits *)
handle_key_event_enter_quits(a, code) ==
    CASE code = "q" -> exit(a)
      [] code = "j" ->
            [a EXCEPT !.selector_cursor_index =
                select_next(a.selector_cursor_index, Len(a.branches))]
      [] code = "k" ->
            [a EXCEPT !.selector_cursor_index =
                select_previous(a.selector_cursor_index, Len(a.branches))]
      [] code = "Enter" -> exit(select_current(a))
      [] OTHER -> a

(* handle_key_event whose j arm also confirms the row it moves to *)
handle_key_event_follow(a, code) ==
    CASE code = "q" -> exit(a)
      [] code = "j" ->
            select_current([a EXCEPT !.selector_cursor_index =
                select_next(a.selector_cursor_index, Len(a.branches))])
      [] code = "k" ->
            [a EXCEPT !.selector_cursor_index =
                select_previous(a.selector_cursor_index, Len(a.branches))]
      [] code = "Enter" -> select_current(a)
      [] OTHER -> a

(* handle_key_event whose fallback arm quits *)
handle_key_event_other(a, code) ==
    CASE code = "q" -> exit(a)
      [] code = "j" ->
            [a EXCEPT !.selector_cursor_index =
                select_next(a.selector_cursor_index, Len(a.branches))]
      [] code = "k" ->
            [a EXCEPT !.selector_cursor_index =
                select_previous(a.selector_cursor_index, Len(a.branches))]
      [] code = "Enter" -> select_current(a)
      [] OTHER -> exit(a)

(* App::handle_key_event: the match on key_event.code *)
handle_key_event(a, code) ==
    CASE code = "q" -> exit(a)
      [] code = "j" ->
            [a EXCEPT !.selector_cursor_index =
                select_next(a.selector_cursor_index, Len(a.branches))]
      [] code = "k" ->
            [a EXCEPT !.selector_cursor_index =
                select_previous(a.selector_cursor_index, Len(a.branches))]
      [] code = "Enter" -> select_current(a)
      [] OTHER -> a

(* handle_events without the guard kind == Press: every key event is handled *)
handle_event_anykind(a, e) ==
    IF e.type = "Key" THEN handle_key_event(a, e.code) ELSE a

(* App::handle_events after a successful event::read(): the match on the event *)
handle_event(a, e) ==
    IF IsPress(e) THEN handle_key_event(a, e.code) ELSE a

(* render_branch with the two flags taken for each other: the marker on the *)
(* cursor row, the colour on the confirmed row                               *)
render_branch_swapped(is_selected, branch_name, is_pointed) ==
    [text |-> <<IF is_pointed THEN "> " ELSE "  ", branch_name>>,
     blue |-> is_selected]

(* App::render_branch: the ListItem of one branch.  text is the display name *)
(* format!("{marker}{name}") as the pair <<marker, name>>; the marker U+25BA *)
(* followed by a space is written "> "; blue is the .blue() style            *)
render_branch(is_selected, branch_name, is_pointed) ==
    [text |-> <<IF is_selected THEN "> " ELSE "  ", branch_name>>,
     blue |-> is_pointed]

(* App::render_branches: the List of the branch pane; row i of the code is *)
(* element i + 1 of items                                                  *)
render_branches(a) ==
    [title |-> "Branches",
     items |-> [i \in 1..Len(a.branches) |->
                  render_branch(a.selected_branch_index = Some(i - 1),
                                a.branches[i],
                                a.selector_cursor_index = i - 1)]]

(* App::render_commits *)
render_commits(a) ==
    [title |-> "Commits", text |-> "Commits content placeholder"]

(* App::render_commit_info *)
render_commit_info(a) ==
    [title |-> "Commit info", text |-> "Commit info placeholder"]

(* impl Widget for &mut App: render draws the three panes *)
render(a) ==
    [branches |-> render_branches(a),
     commits |-> render_commits(a),
     commit_info |-> render_commit_info(a)]

(* The screen before the first frame *)
BlankScreen ==
    [branches |-> [title |-> "", items |-> <<>>],
     commits |-> [title |-> "", text |-> ""],
     commit_info |-> [title |-> "", text |-> ""]]

Init ==
    /\ pc = "main"
    /\ app = DefaultApp
    /\ init_result = "unset"
    /\ app_result = "unset"
    /\ raw_mode = FALSE
    /\ restored = 0
    /\ frames = 0
    /\ events = <<>>
    /\ screen = BlankScreen
    /\ exit_code = None

(* main.rs:189-190: ratatui::init() and App::default() *)
TerminalInit ==
    /\ pc = "main"
    /\ pc' = "init"
    /\ raw_mode' = TRUE
    /\ app' = DefaultApp
    /\ UNCHANGED <<init_result, app_result, restored, frames, events, screen, exit_code>>

(* App::init reads the whole repository: every branch is pushed *)
InitOk(repo) ==
    /\ app' = [app EXCEPT !.branches = repo, !.selected_branch_index = None]
    /\ init_result' = "Ok"
    /\ UNCHANGED exit_code
    /\ pc' = "run"

(* App::init returns Err through a `?`: Repository::open_from_env or         *)
(* repo.branches (n = 0, main.rs:27-28), or branch_and_type? / branch.name()? *)
(* on the n+1-th branch, after n branches were pushed (main.rs:29-30)         *)
InitErr(repo, n) ==
    /\ app' = [app EXCEPT !.branches = SubSeq(repo, 1, n),
                          !.selected_branch_index = None]
    /\ init_result' = "Err"
    /\ UNCHANGED exit_code
    /\ pc' = "run"

(* App::init panics: branch.name() is Ok(None) for a name that is not UTF-8, *)
(* and unwrap() panics after n branches were pushed; a panicking process     *)
(* exits with 101                                                            *)
InitPanic(repo, n) ==
    /\ app' = [app EXCEPT !.branches = SubSeq(repo, 1, n),
                          !.selected_branch_index = None]
    /\ init_result' = "unset"
    /\ exit_code' = Some(101)
    /\ pc' = "panicked"

(* main.rs:191: let _init_result = app.init(); *)
AppInit ==
    /\ pc = "init"
    /\ \E repo \in Repos :
          \/ InitOk(repo)
          \/ \E n \in {0} \cup 0..(Len(repo) - 1) : InitErr(repo, n)
          \/ \E n \in 0..(Len(repo) - 1) : InitPanic(repo, n)
    /\ UNCHANGED <<app_result, raw_mode, restored, frames, events, screen>>

(* run written as a loop that never tests the exit flag *)
LoopTestNoExit ==
    /\ pc = "run"
    /\ pc' = "draw"
    /\ UNCHANGED <<app, init_result, app_result, raw_mode, restored, frames, events, screen, exit_code>>

(* main.rs:37 and 41: the test of while !self.exit, and Ok(()) when it fails *)
LoopTest ==
    /\ pc = "run"
    /\ IF app.exit
       THEN pc' = "restore" /\ app_result' = "Ok"
       ELSE pc' = "draw" /\ UNCHANGED app_result
    /\ UNCHANGED <<app, init_result, raw_mode, restored, frames, events, screen, exit_code>>

(* a draw whose render, holding &mut App, clears the confirmed selection *)
DrawOkClearsSelection ==
    /\ pc = "draw"
    /\ frames < MaxEvents + 1
    /\ frames' = frames + 1
    /\ screen' = render(app)
    /\ app' = [app EXCEPT !.selected_branch_index = None]
    /\ pc' = "read"
    /\ UNCHANGED <<init_result, app_result, raw_mode, restored, events, exit_code>>

(* main.rs:38: terminal.draw(...)? draws one frame *)
DrawOk ==
    /\ pc = "draw"
    /\ frames < MaxEvents + 1
    /\ frames' = frames + 1
    /\ screen' = render(app)
    /\ pc' = "read"
    /\ UNCHANGED <<app, init_result, app_result, raw_mode, restored, events, exit_code>>

(* main.rs:38: terminal.draw(...)? fails and run returns the error *)
DrawErr ==
    /\ pc = "draw"
    /\ pc' = "restore"
    /\ app_result' = "Err"
    /\ UNCHANGED <<app, init_result, raw_mode, restored, frames, events, screen, exit_code>>

(* handle_events that drops an event equal to the one read before it *)
HandleEventsOkDebounce ==
    /\ pc = "read"
    /\ Len(events) < MaxEvents
    /\ \E e \in Events :
          /\ IsPress(e) \/ NumDiscarded(events) < MaxDiscarded
          /\ events' = Append(events, e)
          /\ app' = IF events # <<>> /\ events[Len(events)] = e
                    THEN app
                    ELSE handle_event(app, e)
    /\ pc' = "run"
    /\ UNCHANGED <<init_result, app_result, raw_mode, restored, frames, screen, exit_code>>

(* main.rs:39, 44-54: handle_events reads one event and applies it.  The    *)
(* model reads at most MaxEvents events, at most MaxDiscarded of them events *)
(* that are not key presses                                                  *)
HandleEventsOk ==
    /\ pc = "read"
    /\ Len(events) < MaxEvents
    /\ \E e \in Events :
          /\ IsPress(e) \/ NumDiscarded(events) < MaxDiscarded
          /\ events' = Append(events, e)
          /\ app' = handle_event(app, e)
    /\ pc' = "run"
    /\ UNCHANGED <<init_result, app_result, raw_mode, restored, frames, screen, exit_code>>

(* a failed read whose error leaves main before ratatui::restore() *)
HandleEventsErrNoRestore ==
    /\ pc = "read"
    /\ pc' = "return"
    /\ app_result' = "Err"
    /\ UNCHANGED <<app, init_result, raw_mode, restored, frames, events, screen, exit_code>>

(* main.rs:39, 45: event::read()? fails and run returns the error *)
HandleEventsErr ==
    /\ pc = "read"
    /\ pc' = "restore"
    /\ app_result' = "Err"
    /\ UNCHANGED <<app, init_result, raw_mode, restored, frames, events, screen, exit_code>>

(* main.rs:193: ratatui::restore() *)
Restore ==
    /\ pc = "restore"
    /\ raw_mode' = FALSE
    /\ restored' = restored + 1
    /\ pc' = "return"
    /\ UNCHANGED <<app, init_result, app_result, frames, events, screen, exit_code>>

(* main.rs:194: main returns app_result; the process exits with 0 for Ok *)
(* and with 1 for Err                                                      *)
Return ==
    /\ pc = "return"
    /\ pc' = "done"
    /\ exit_code' = Some(IF app_result = "Ok" THEN 0 ELSE 1)
    /\ UNCHANGED <<app, init_result, app_result, raw_mode, restored, frames, events, screen>>

Next ==
    \/ TerminalInit
    \/ AppInit
    \/ LoopTest
    \/ DrawOk
    \/ DrawErr
    \/ HandleEventsOk
    \/ HandleEventsErr
    \/ Restore
    \/ Return

Spec == Init /\ [][Next]_vars

TypeOK ==
    /\ pc \in PcValues
    /\ app.exit \in BOOLEAN
    /\ app.branches \in Repos
    /\ app.selector_cursor_index \in Int
    /\ init_result \in {"unset", "Ok", "Err"}
    /\ app_result \in {"unset", "Ok", "Err"}
    /\ raw_mode \in BOOLEAN
    /\ restored \in Nat
    /\ frames \in 0..(MaxEvents + 1)
    /\ Len(events) <= MaxEvents
    /\ DOMAIN screen = {"branches", "commits", "commit_info"}
    /\ exit_code \in {None, Some(0), Some(1), Some(101)}

(***************************************************************************)
(* Vocabulary of the properties                                            *)
(***************************************************************************)

(* The press event of key c *)
Press(c) == [type |-> "Key", kind |-> "Press", code |-> c]

(* The step in which handle_events reads e and handles it *)
Handled(e) == pc = "read" /\ events' = Append(events, e)

(* The step in which a press of key c is handled *)
KeyPressed(c) == Handled(Press(c))

NumBranches == Len(app.branches)
Loaded == pc \notin {"main", "init", "panicked"}
ThreeBranches == <<"main", "dev", "feature-x">>

(* The App after the events es were handled one after the other, from a *)
RECURSIVE Replay(_, _)
Replay(a, es) ==
    IF es = <<>> THEN a
    ELSE Replay(handle_event(a, Head(es)), Tail(es))

(* The App as App::init left it, given the branches it loaded *)
LoadedApp == [DefaultApp EXCEPT !.branches = app.branches]

(* The cursor before the last k events were handled *)
CursorBefore(k) ==
    Replay(LoadedApp, SubSeq(events, 1, Len(events) - k)).selector_cursor_index

(* The last k events are all presses of key c *)
LastAre(k, c) ==
    /\ Len(events) >= k
    /\ \A i \in (Len(events) - k + 1)..Len(events) : events[i] = Press(c)

(* f applied k times to the cursor c of a list of n branches *)
RECURSIVE Times(_, _, _, _)
Times(f(_, _), k, c, n) == IF k = 0 THEN c ELSE Times(f, k - 1, f(c, n), n)

(***************************************************************************)
(* C1..C10                                                                 *)
(***************************************************************************)

(* C1: whenever branches is non-empty, 0 <= cursor_index < len(branches), in *)
(* every state the event loop reaches, whatever events it handles.           *)
C1_CursorInRange ==
    NumBranches > 0 =>
        /\ 0 <= app.selector_cursor_index
        /\ app.selector_cursor_index < NumBranches

(* C1 witness: the cursor sits on the last of three rows after a k press *)
(* wrapped it there from row 0.                                          *)
C1_Witness ==
    /\ NumBranches = 3
    /\ events = <<Press("k")>>
    /\ app.selector_cursor_index = 2

(* C2 (as claimed): on an empty branch list, loaded without error, Enter is *)
(* a no-op, so after any presses (j, k, Enter in particular) the cursor      *)
(* keeps its initial value 0 and selected_index is still None.               *)
C2_EmptyEnterNoop ==
    (init_result = "Ok" /\ NumBranches = 0) =>
        /\ app.selector_cursor_index = 0
        /\ app.selected_branch_index = None

(* C3 (as claimed): after a failed initialization the event loop is never *)
(* entered: no frame is drawn and no event is read.                        *)
C3_InitFailureAborts ==
    init_result = "Err" =>
        /\ pc \notin {"draw", "read"}
        /\ frames = 0
        /\ events = <<>>

(* C4: a q press sets the exit flag and returns to the loop test; once the *)
(* flag is set no frame is drawn, no event is read and the App is not      *)
(* changed; the loop test then leaves run with Ok; and when main is done   *)
(* the terminal was restored exactly once.                                 *)
C4_QuitTerminates ==
    [][/\ KeyPressed("q") => (app'.exit /\ pc' = "run")
       /\ app.exit => (frames' = frames /\ events' = events /\ app' = app)
       /\ (app.exit /\ pc = "run") => (pc' = "restore" /\ app_result' = "Ok")
       /\ restored' <= 1
       /\ pc' = "done" => (restored' = 1 /\ ~raw_mode')
      ]_vars

(* C4 witness: main is done after a q press, the terminal restored once *)
C4_Witness ==
    /\ pc = "done"
    /\ app.exit
    /\ events = <<Press("j"), Press("q")>>
    /\ frames = 2
    /\ restored = 1
    /\ app_result = "Ok"

(* C5: on a non-empty list of N branches a j press sets the cursor to       *)
(* (cursor + 1) mod N and changes nothing else; with [main, dev, feature-x] *)
(* two j presses give cursor 2, a third gives 0, Enter then selects Some(0). *)
C5_NextIsSuccessorModN ==
    [][/\ (KeyPressed("j") /\ NumBranches > 0) =>
            app' = [app EXCEPT !.selector_cursor_index =
                        (app.selector_cursor_index + 1) % NumBranches]
       /\ (app'.branches = ThreeBranches
             /\ events' = <<Press("j"), Press("j")>>) =>
            app'.selector_cursor_index = 2
       /\ (app'.branches = ThreeBranches
             /\ events' = <<Press("j"), Press("j"), Press("j")>>) =>
            app'.selector_cursor_index = 0
       /\ (app'.branches = ThreeBranches
             /\ events' = <<Press("j"), Press("j"), Press("j"), Press("Enter")>>) =>
            (app'.selector_cursor_index = 0
               /\ app'.selected_branch_index = Some(0))
      ]_vars

(* C5 witness: the scenario's last state *)
C5_Witness ==
    /\ app.branches = ThreeBranches
    /\ events = <<Press("j"), Press("j"), Press("j"), Press("Enter")>>
    /\ app.selected_branch_index = Some(0)

(* C6: on a non-empty list, from every valid cursor position, next then      *)
(* previous and previous then next give the position back; and in a run, the *)
(* cursor after a j press followed by a k press (or k then j) is the cursor  *)
(* before the two presses.                                                   *)
C6_PreviousInvertsNext ==
    NumBranches > 0 =>
        /\ \A c \in 0..(NumBranches - 1) :
              /\ select_previous(select_next(c, NumBranches), NumBranches) = c
              /\ select_next(select_previous(c, NumBranches), NumBranches) = c
        /\ select_previous(0, NumBranches) = NumBranches - 1
        /\ (Len(events) >= 2 /\
            (\/ SubSeq(events, Len(events) - 1, Len(events)) = <<Press("j"), Press("k")>>
             \/ SubSeq(events, Len(events) - 1, Len(events)) = <<Press("k"), Press("j")>>))
             => app.selector_cursor_index = CursorBefore(2)

(* C6 witness: from row 0 of three, k wrapped to row 2 and j came back *)
C6_Witness ==
    /\ NumBranches = 3
    /\ events = <<Press("k"), Press("j")>>
    /\ app.selector_cursor_index = 0

(* C7: on a list of N > 0 branches, next applied N times to any valid cursor *)
(* gives it back; and in a run, after N j presses in a row the cursor is the *)
(* cursor before them.                                                        *)
C7_FullCycle ==
    NumBranches > 0 =>
        /\ \A c \in 0..(NumBranches - 1) :
              Times(select_next, NumBranches, c, NumBranches) = c
        /\ LastAre(NumBranches, "j") =>
              app.selector_cursor_index = CursorBefore(NumBranches)

(* C7 witness: three j presses from row 2 of three end on row 2 *)
C7_Witness ==
    /\ NumBranches = 3
    /\ events = <<Press("k"), Press("j"), Press("j"), Press("j")>>
    /\ app.selector_cursor_index = 2

(* C8: on an empty list every j press and every k press leaves the cursor  *)
(* as it was, a natural number (no underflow), and the loop goes on.        *)
C8_EmptyListMovesAreNoops ==
    [][(NumBranches = 0 /\ (KeyPressed("j") \/ KeyPressed("k"))) =>
            /\ app' = app
            /\ app'.selector_cursor_index \in Nat
            /\ pc' = "run"
      ]_vars

(* C8 witness: j, k, k, j were pressed on an empty list *)
C8_Witness ==
    /\ Loaded
    /\ NumBranches = 0
    /\ events = <<Press("j"), Press("k"), Press("k"), Press("j")>>
    /\ app.selector_cursor_index = 0

(* C9: selected_index is None as long as no Enter press was handled, and *)
(* only the handling of an Enter press changes it.                        *)
C9_SelectionPersists ==
    [][/\ (app'.selected_branch_index # app.selected_branch_index) =>
            KeyPressed("Enter")
       /\ (\A i \in 1..Len(events') : events'[i] # Press("Enter")) =>
            app'.selected_branch_index = None
      ]_vars

(* C9 witness: row 0 was confirmed, then the cursor moved to row 2 and back *)
(* to row 1                                                                  *)
C9_Witness ==
    /\ NumBranches = 3
    /\ events = <<Press("Enter"), Press("j"), Press("j"), Press("k")>>
    /\ app.selector_cursor_index = 1
    /\ app.selected_branch_index = Some(0)

(* C10: a q press sets the exit flag, a j press moves the cursor to the next *)
(* row (wrapping), a k press to the previous row (wrapping), an Enter press  *)
(* sets selected_index to Some(cursor at the press), and a press of any      *)
(* other key changes nothing of the App; each touches nothing else.          *)
C10_Keybindings ==
    [][/\ KeyPressed("q") => app' = [app EXCEPT !.exit = TRUE]
       /\ KeyPressed("j") =>
            app' = [app EXCEPT !.selector_cursor_index =
                        IF NumBranches = 0 THEN @ ELSE (@ + 1) % NumBranches]
       /\ KeyPressed("k") =>
            app' = [app EXCEPT !.selector_cursor_index =
                        IF NumBranches = 0 THEN @
                        ELSE (@ + NumBranches - 1) % NumBranches]
       /\ KeyPressed("Enter") =>
            app' = [app EXCEPT !.selected_branch_index =
                        Some(app.selector_cursor_index)]
       /\ (\E c \in KeyCodes \ {"q", "j", "k", "Enter"} : KeyPressed(c)) =>
            app' = app
      ]_vars

(* C10 witness: j, Enter, x and q were pressed: row 1 is confirmed, the x *)
(* press changed nothing and q set the exit flag                           *)
C10_Witness ==
    /\ NumBranches = 3
    /\ events = <<Press("j"), Press("Enter"), Press("x"), Press("q")>>
    /\ app.selector_cursor_index = 1
    /\ app.selected_branch_index = Some(1)
    /\ app.exit

(***************************************************************************)
(* C11..C20                                                                *)
(***************************************************************************)

Release(c) == [type |-> "Key", kind |-> "Release", code |-> c]
Resize == [type |-> "Resize", kind |-> "-", code |-> "-"]

(* C11: the exit flag starts false, changes only in the step that handles a *)
(* q press, which sets it, and once true it stays true.                      *)
C11_ExitMonotonic ==
    [][/\ (pc = "main" \/ pc = "init") => ~app.exit
       /\ (app'.exit # app.exit) => KeyPressed("q")
       /\ KeyPressed("q") => app'.exit
       /\ app.exit => app'.exit
      ]_vars

(* C11 witness: main is done, the flag set by the q press that ended three *)
(* other presses                                                            *)
C11_Witness ==
    /\ pc = "done"
    /\ events = <<Press("Enter"), Press("x"), Press("j"), Press("q")>>
    /\ app.exit

(* C12: the handling of an event that is not a key press (a key event of   *)
(* another kind, whatever its code, or a non-key event) leaves the App as  *)
(* it was and returns to the loop test.                                    *)
C12_NonPressDiscarded ==
    [][\A e \in Events :
          (~IsPress(e) /\ Handled(e)) => (app' = app /\ pc' = "run")
      ]_vars

(* C12 witness: a release of q was read on a loaded list and the loop went *)
(* on to draw the next frame                                                *)
C12_Witness ==
    /\ NumBranches = 3
    /\ events = <<Press("j"), Release("q")>>
    /\ ~app.exit
    /\ app.selector_cursor_index = 1
    /\ pc = "read"
    /\ frames = 3

(* C13: a failed draw or a failed read ends the loop with Err and goes to  *)
(* ratatui::restore(); when main is done with Err the terminal was restored *)
(* exactly once and the exit code is that of the error.                     *)
C13_ErrorStillRestores ==
    [][/\ ((pc = "draw" \/ pc = "read") /\ app_result' = "Err") =>
            (pc' = "restore" /\ restored' = 0)
       /\ (pc' = "done" /\ app_result' = "Err") =>
            (restored' = 1 /\ ~raw_mode' /\ exit_code' = Some(1))
      ]_vars

(* C13 witness: the second read failed, and main is done *)
C13_Witness ==
    /\ pc = "done"
    /\ app_result = "Err"
    /\ frames = 2
    /\ Len(events) = 1
    /\ restored = 1
    /\ ~raw_mode

(* C14 (as claimed): when main is done, the exit code is 0 after a clean   *)
(* quit via q, and is not 0 when initialization failed.                    *)
C14_ExitCodes ==
    pc = "done" =>
        /\ (init_result = "Ok" /\ app.exit /\ app_result = "Ok") =>
              exit_code = Some(0)
        /\ init_result = "Err" => exit_code # Some(0)

(* C15 (as claimed): in every frame, a row has the marker exactly when it *)
(* is the cursor row, two spaces otherwise, and the emphasis exactly when *)
(* it is the confirmed row.                                                *)
C15_MarkerOnCursorRow ==
    pc = "read" =>
        LET items == screen.branches.items
        IN  /\ Len(items) = NumBranches
            /\ \A i \in 1..Len(items) :
                  /\ items[i].text =
                        <<IF app.selector_cursor_index = i - 1 THEN "> " ELSE "  ",
                          app.branches[i]>>
                  /\ items[i].blue <=> (app.selected_branch_index = Some(i - 1))

(* C15 (amended): in every frame, a row has the marker exactly when it is   *)
(* the confirmed row (selected_index), two spaces otherwise, followed by the *)
(* branch name, and the emphasis (blue) exactly when it is the cursor row,   *)
(* each independently of the other.                                          *)
C15_MarkerOnSelectedRow ==
    pc = "read" =>
        LET items == screen.branches.items
        IN  /\ Len(items) = NumBranches
            /\ \A i \in 1..Len(items) :
                  /\ items[i].text =
                        <<IF app.selected_branch_index = Some(i - 1) THEN "> " ELSE "  ",
                          app.branches[i]>>
                  /\ items[i].blue <=> (app.selector_cursor_index = i - 1)

(* C15 witness: a frame of three rows, row 0 confirmed and marked, row 1 *)
(* under the cursor and blue                                             *)
C15_Witness ==
    /\ pc = "read"
    /\ NumBranches = 3
    /\ app.selected_branch_index = Some(0)
    /\ app.selector_cursor_index = 1
    /\ screen.branches.items[1] = [text |-> <<"> ", "main">>, blue |-> FALSE]
    /\ screen.branches.items[2] = [text |-> <<"  ", "dev">>, blue |-> TRUE]
    /\ screen.branches.items[3] = [text |-> <<"  ", "feature-x">>, blue |-> FALSE]

(* C17: an event is read only after the current App was drawn (one frame   *)
(* per event read, the frame showing the App the event is applied to), and *)
(* after every step the App is the initial App with the events read so far *)
(* applied one after the other, in the order they were read.               *)
C17_EventsAppliedInOrder ==
    [][/\ (Len(events') # Len(events)) =>
            /\ pc = "read"
            /\ Len(events') = Len(events) + 1
            /\ frames = Len(events) + 1
            /\ screen = render(app)
            /\ app' = handle_event(app, events'[Len(events')])
       /\ (frames' # frames) =>
            (frames' = frames + 1 /\ frames = Len(events) /\ ~app.exit)
       /\ Loaded' => app' = Replay(LoadedApp', events')
      ]_vars

(* C17 witness: four events were read and applied in order: k wrapped to  *)
(* row 2, Enter confirmed it, the release of j was discarded, j wrapped to *)
(* row 0; the fifth frame is drawn                                         *)
C17_Witness ==
    /\ NumBranches = 3
    /\ events = <<Press("k"), Press("Enter"), Release("j"), Press("j")>>
    /\ app.selector_cursor_index = 0
    /\ app.selected_branch_index = Some(2)
    /\ frames = 5
    /\ pc = "read"

(* C18: a draw, successful or not, leaves the App as it was, and the frame *)
(* it draws is the rendering of that App: the same App gives the same      *)
(* frame.                                                                   *)
C18_RenderKeepsApp ==
    [][/\ pc = "draw" => app' = app
       /\ (pc = "draw" /\ pc' = "read") => screen' = render(app')
       /\ (pc = "draw" /\ pc' = "read" /\ screen = render(app)) => screen' = screen
      ]_vars

(* C18 witness: the same App was drawn twice (the event between the two *)
(* frames was discarded), with a confirmed row on the screen            *)
C18_Witness ==
    /\ pc = "read"
    /\ NumBranches = 3
    /\ events = <<Press("j"), Press("Enter"), Resize>>
    /\ frames = 4
    /\ screen = render(app)
    /\ screen.branches.items[2].text = <<"> ", "dev">>

(* C19: no step other than App::init changes branches. *)
C19_BranchesFixed ==
    [][pc # "init" => app'.branches = app.branches]_vars

(* C19 witness: main is done after moves, a confirmation and the quit, the *)
(* three branches as loaded                                                 *)
C19_Witness ==
    /\ pc = "done"
    /\ init_result = "Ok"
    /\ app.branches = ThreeBranches
    /\ events = <<Press("j"), Press("Enter"), Press("k"), Press("q")>>

(* C20: on a non-empty list selected_index is None or Some(i) with *)
(* 0 <= i < len(branches).                                          *)
C20_SelectionInRange ==
    NumBranches > 0 =>
        \/ app.selected_branch_index = None
        \/ \E i \in 0..(NumBranches - 1) : app.selected_branch_index = Some(i)

(* C20 witness: the last of three rows is confirmed *)
C20_Witness ==
    /\ NumBranches = 3
    /\ events = <<Press("k"), Press("Enter")>>
    /\ app.selected_branch_index = Some(2)
====
